---- MODULE Spec2Model ----
(***************************************************************************)
(* A model of the FAISS-backed vector store of utils/vector_db.py          *)
(* (class VectorDB) together with the two persisted artifacts it reads     *)
(* and writes.  Python lists are sequences, dicts are functions over       *)
(* their keys, positions are 1-based (Python position p is position p+1    *)
(* here).                                                                  *)
(***************************************************************************)
EXTENDS Integers, Sequences, FiniteSets, TLC

\* ------------------------------------------------------------------ bounds

\* The store never grows beyond this many texts, metadata entries or vectors.
MaxRecords == 2

\* The embedding dimension the service constructs the store with
\* (384 and 1536 in the service, scaled down).
Dim == 2

\* Lengths of the three lists one add_documents call may receive.
BatchLens == {0, 1, 2}

\* ------------------------------------------------------------- value sets

\* Two component values that straddle the largest integer float32 holds
\* exactly: Lo is representable, Hi is not (it rounds to 2^24).
Lo == 2^24 - 1
Hi == 2^24 + 1

ConstVec(n, x) == [i \in 1..n |-> x]

\* Well-dimensioned embeddings, and one of the wrong length.
Vectors == {ConstVec(Dim, Lo), ConstVec(Dim, Hi)}
BadVectors == {ConstVec(Dim + 1, Lo)}

\* Query vectors: the two stored ones and one equidistant from both.
Queries == Vectors \cup {[i \in 1..Dim |-> IF i = 1 THEN Lo ELSE Hi]}

Texts == {"t1", "t2"}
Filenames == {"a.txt", "b.txt"}

EmptyDict == [key \in {} |-> ""]
Meta(f) == [filename |-> f]
Metas == {Meta(f) : f \in Filenames}

SeqsOfLen(S, lens) == UNION {[1..n -> S] : n \in lens}

\* The optional metadata argument: None, or a list.
NoneArg == [given |-> FALSE]
ListArg(l) == [given |-> TRUE, list |-> l]

\* A chunk and its embedding: each text has its own embedding.
Documents == {<<ConstVec(Dim, Lo), "t1">>, <<ConstVec(Dim, Hi), "t2">>}

\* The argument lists of add_documents.  Batches whose three lists agree in
\* length, of any documents with any metadata; and every combination of
\* lengths and of well- and ill-dimensioned embeddings, with one content.
AlignedArgs ==
    UNION {{<<[i \in 1..n |-> docs[i][1]], [i \in 1..n |-> docs[i][2]], meta>> :
               docs \in [1..n -> Documents],
               meta \in {NoneArg} \cup {ListArg(l) : l \in [1..n -> Metas]}}
           : n \in BatchLens \ {0}}

ShapedArgs ==
    SeqsOfLen({ConstVec(Dim, Lo)} \cup BadVectors, BatchLens)
        \X SeqsOfLen({"t1"}, BatchLens)
        \X ({NoneArg} \cup {ListArg(l) : l \in SeqsOfLen({Meta("a.txt")}, BatchLens)})

AddArgs == AlignedArgs \cup ShapedArgs

\* k of search; larger than any store the bounds allow.
Ks == 1..(MaxRecords + 1)

\* An entry of self.embeddings: a vector, or None.
NoneEmb == [none |-> TRUE]
Some(v) == [none |-> FALSE, v |-> v]

\* ------------------------------------------------------------ Python, numpy

Min(a, b) == IF a <= b THEN a ELSE b

\* `not x` of a list.
Not(l) == Len(l) = 0

\* dict.get(key, default)
Get(d, key, default) == IF key \in DOMAIN d THEN d[key] ELSE default

\* [x] * n
Repeat(x, n) == [i \in 1..n |-> x]

\* float32 of an integer of magnitude below 2^25: exact up to 2^24, above it
\* the nearest even integer, ties going to the multiple of 4.
F32(x) ==
    IF -(2^24) <= x /\ x <= 2^24 THEN x
    ELSE IF x % 2 = 0 THEN x
    ELSE IF (x + 1) % 4 = 0 THEN x + 1 ELSE x - 1

\* np.array(rows).astype('float32'): a ragged list is no 2-d array.
np_array(rows) ==
    IF \A i, j \in DOMAIN rows : Len(rows[i]) = Len(rows[j])
    THEN [exc |-> "none",
          rows |-> [i \in DOMAIN rows |-> [c \in DOMAIN rows[i] |-> F32(rows[i][c])]]]
    ELSE [exc |-> "ValueError", rows |-> <<>>]

\* list.pop(idx) for the positions of `remove`, highest first, each guarded by
\* idx < len(list).
PopAll(l, remove) ==
    LET keep == {i \in DOMAIN l : i \notin remove}
        F[n \in 0..Len(l)] ==
            IF n = 0 THEN <<>>
            ELSE IF n \in keep THEN Append(F[n - 1], l[n]) ELSE F[n - 1]
    IN F[Len(l)]

\* ------------------------------------------------------------------- faiss

IndexFlatL2(d) == [d |-> d, xb |-> <<>>]

ntotal(ix) == Len(ix.xb)

\* An index.add that appends rows of any length.
index_add_unchecked(ix, rows) ==
    [exc |-> "none", index |-> [ix EXCEPT !.xb = @ \o rows]]

\* index.add(x): asserts the rows have the index's dimension, then appends.
index_add(ix, rows) ==
    IF \A i \in DOMAIN rows : Len(rows[i]) = ix.d
    THEN [exc |-> "none", index |-> [ix EXCEPT !.xb = @ \o rows]]
    ELSE [exc |-> "AssertionError", index |-> ix]

\* Squared Euclidean distance.
L2sqr(x, y) ==
    LET S[n \in 0..Len(x)] ==
            IF n = 0 THEN 0 ELSE S[n - 1] + (x[n] - y[n]) * (x[n] - y[n])
    IN S[Len(x)]

\* (distance, position) order of the flat scan: nearer first, equal distances by
\* lower position.
Nearer(ix, q, i, j) ==
    \/ L2sqr(q, ix.xb[i]) < L2sqr(q, ix.xb[j])
    \/ L2sqr(q, ix.xb[i]) = L2sqr(q, ix.xb[j]) /\ i <= j

\* index.search(q, k): asserts k > 0 and the query's dimension; the labels of
\* the k nearest vectors with their distances.
index_search(ix, q, k) ==
    IF k <= 0 \/ Len(q) # ix.d
    THEN [exc |-> "AssertionError", labels |-> <<>>, distances |-> <<>>]
    ELSE LET R[n \in 0..k] ==
                 IF n = 0 THEN <<>>
                 ELSE LET left == DOMAIN ix.xb \ {R[n - 1][i] : i \in 1..(n - 1)}
                          best == CHOOSE i \in left : \A j \in left : Nearer(ix, q, i, j)
                      IN Append(R[n - 1], best)
         IN [exc |-> "none", labels |-> R[k],
             distances |-> [n \in 1..k |-> L2sqr(q, ix.xb[R[k][n]])]]

\* --------------------------------------------------------------- the disk

\* index_path of the service's store, split at its suffix.
IndexPath == <<"data/faiss_index_free", ".pkl">>

\* str.replace(old, new) on a path.
replace(path, old, new) == [i \in DOMAIN path |-> IF path[i] = old THEN new ELSE path[i]]

IndexFile == replace(IndexPath, ".pkl", ".index")

Files == {IndexPath, IndexFile}

Absent == [exists |-> FALSE]
FaissFile(ix) == [exists |-> TRUE, kind |-> "faiss", data |-> ix]
PickleFile(data) == [exists |-> TRUE, kind |-> "pickle", data |-> data]

\* A file that is there but that its reader cannot decode.
Unreadable == [exists |-> TRUE, kind |-> "corrupt"]

NoFiles == [f \in Files |-> Absent]

VARIABLES
    dimension,   \* self.dimension
    index,       \* self.index
    texts,       \* self.texts
    metadata,    \* self.metadata
    embeddings,  \* self.embeddings
    disk,        \* the files at index_path and its .index sibling
    call,        \* the call in progress, with its arguments
    ret,         \* what the call returned or raised
    frame        \* the local variables of a chunk_text call in progress

store == <<dimension, index, texts, metadata, embeddings>>
vars == <<dimension, index, texts, metadata, embeddings, disk, call, ret, frame>>

Self == [dimension |-> dimension, index |-> index, texts |-> texts,
         metadata |-> metadata, embeddings |-> embeddings]

\* VectorDB.size
size(self) == ntotal(self.index)

\* A save in the snapshot format that holds no embeddings.
save_without_embeddings(self, d) ==
    [d EXCEPT ![IndexFile] = FaissFile(self.index),
              ![IndexPath] = PickleFile([texts |-> self.texts,
                                         metadata |-> self.metadata,
                                         dimension |-> self.dimension])]

\* VectorDB.save: the index file first, then the pickle.
save(self, d) ==
    [d EXCEPT ![IndexFile] = FaissFile(self.index),
              ![IndexPath] = PickleFile([texts |-> self.texts,
                                         metadata |-> self.metadata,
                                         embeddings |-> self.embeddings,
                                         dimension |-> self.dimension])]

\* VectorDB.save up to its first write: the index file is written, the pickle
\* is still the old one.
write_index(self, d) == [d EXCEPT ![IndexFile] = FaissFile(self.index)]

\* A load whose handler leaves in place what was read before the exception.
load_without_reset(self, d) ==
    IF d[IndexFile].exists /\ d[IndexPath].exists /\ d[IndexFile].kind = "faiss"
    THEN [self EXCEPT !.index = d[IndexFile].data]
    ELSE self

\* VectorDB.load
load(self, d) ==
    IF d[IndexFile].exists /\ d[IndexPath].exists
    THEN IF d[IndexFile].kind = "faiss" /\ d[IndexPath].kind = "pickle"
         THEN LET data == d[IndexPath].data
                  loaded == Get(data, "embeddings", <<>>)
                  txts == Get(data, "texts", <<>>)
              IN [dimension |-> Get(data, "dimension", self.dimension),
                  index |-> d[IndexFile].data,
                  texts |-> txts,
                  metadata |-> Get(data, "metadata", <<>>),
                  embeddings |-> IF Not(loaded) /\ ~Not(txts)
                                 THEN Repeat(NoneEmb, Len(txts))
                                 ELSE loaded]
         ELSE [self EXCEPT !.index = IndexFlatL2(self.dimension),
                           !.texts = <<>>, !.metadata = <<>>, !.embeddings = <<>>]
    ELSE self

\* VectorDB.__init__
new(dim, d) ==
    load([dimension |-> dim, index |-> IndexFlatL2(dim), texts |-> <<>>,
          metadata |-> <<>>, embeddings |-> <<>>], d)

\* ------------------------------------------------------------ operations

\* What a method hands back: the exception raised ("none" when it returned),
\* the object afterwards, and whether save() ran.
Raise(self, e) == [exc |-> e, self |-> self, saved |-> FALSE]

\* `if not embeddings`, the test without its second operand.
empty_embeddings(embs, txts) == Not(embs)

\* `if not embeddings or not texts`
empty_batch(embs, txts) == Not(embs) \/ Not(txts)

\* `if len(embeddings) < len(texts)`, the test for one direction only.
fewer_embeddings(embs, txts) == Len(embs) < Len(txts)

\* `if len(embeddings) != len(texts)`
length_mismatch(embs, txts) == Len(embs) # Len(txts)

\* VectorDB.add_documents
add_documents(self, embs, txts, meta) ==
    IF empty_batch(embs, txts)
    THEN [exc |-> "none", self |-> self, saved |-> FALSE]
    ELSE IF length_mismatch(embs, txts)
    THEN Raise(self, "ValueError")
    ELSE LET embeddings_array == np_array(embs)
             added == index_add(self.index, embeddings_array.rows)
         IN IF embeddings_array.exc # "none" THEN Raise(self, embeddings_array.exc)
            ELSE IF added.exc # "none" THEN Raise(self, added.exc)
            ELSE [exc |-> "none",
                  self |-> [self EXCEPT
                      !.index = added.index,
                      !.texts = @ \o txts,
                      !.embeddings = @ \o [i \in DOMAIN embs |-> Some(embs[i])],
                      !.metadata = @ \o (IF meta.given /\ ~Not(meta.list)
                                         THEN meta.list
                                         ELSE Repeat(EmptyDict, Len(txts)))],
                  saved |-> TRUE]

\* VectorDB.search; a label past the end of self.texts is an IndexError.
search(self, query_embedding, k) ==
    IF ntotal(self.index) = 0
    THEN [exc |-> "none", results |-> <<>>]
    ELSE LET query_array == np_array(<<query_embedding>>)
             found == index_search(self.index, query_array.rows[1],
                                   Min(k, ntotal(self.index)))
         IN IF found.exc # "none" THEN [exc |-> found.exc, results |-> <<>>]
            ELSE IF \E i \in DOMAIN found.labels : found.labels[i] > Len(self.texts)
            THEN [exc |-> "IndexError", results |-> <<>>]
            ELSE [exc |-> "none",
                  results |-> [i \in DOMAIN found.labels |->
                      <<self.texts[found.labels[i]],
                        found.distances[i],
                        IF found.labels[i] <= Len(self.metadata)
                        THEN self.metadata[found.labels[i]]
                        ELSE EmptyDict>>]]

\* The positions delete_documents_by_filename collects.
indices_to_remove(self, filename) ==
    {i \in DOMAIN self.metadata :
        "filename" \in DOMAIN self.metadata[i] /\ self.metadata[i].filename = filename}

has_some_embeddings(self) ==
    ~Not(self.embeddings) /\ \E i \in DOMAIN self.embeddings : ~self.embeddings[i].none

\* The rebuild loop of delete_documents_by_filename over the retained positions:
\* the new index, texts, metadata and embeddings, or the exception it stops at.
rebuild(self, remove) ==
    LET B[n \in 0..Len(self.texts)] ==
            IF n = 0
            THEN [exc |-> "none", index |-> IndexFlatL2(self.dimension),
                  texts |-> <<>>, metadata |-> <<>>, embeddings |-> <<>>]
            ELSE LET b == B[n - 1]
                     has == n <= Len(self.embeddings) /\ ~self.embeddings[n].none
                     added == IF has
                              THEN index_add(b.index, np_array(<<self.embeddings[n].v>>).rows)
                              ELSE [exc |-> "none", index |-> b.index]
                 IN IF b.exc # "none" \/ n \in remove THEN b
                    ELSE IF added.exc # "none" THEN [b EXCEPT !.exc = added.exc]
                    ELSE IF n > Len(self.metadata) THEN [b EXCEPT !.exc = "IndexError"]
                    ELSE [exc |-> "none",
                          index |-> added.index,
                          texts |-> Append(b.texts, self.texts[n]),
                          metadata |-> Append(b.metadata, self.metadata[n]),
                          embeddings |-> Append(b.embeddings,
                                                IF has THEN self.embeddings[n] ELSE NoneEmb)]
    IN B[Len(self.texts)]

\* A delete that rebuilds into the object itself instead of into locals, so
\* that a failure leaves what was rebuilt so far.
delete_in_place(self, filename) ==
    LET remove == indices_to_remove(self, filename)
        built == rebuild(self, remove)
    IN IF ntotal(self.index) = 0 \/ remove = {}
       THEN [exc |-> "none", count |-> 0, self |-> self, saved |-> FALSE]
       ELSE [exc |-> built.exc,
             count |-> IF built.exc = "none" THEN Cardinality(remove) ELSE 0,
             self |-> [self EXCEPT !.index = built.index, !.texts = built.texts,
                                   !.metadata = built.metadata,
                                   !.embeddings = built.embeddings],
             saved |-> built.exc = "none"]

\* VectorDB.delete_documents_by_filename
delete_documents_by_filename(self, filename) ==
    LET remove == indices_to_remove(self, filename)
        built == rebuild(self, remove)
    IN IF ntotal(self.index) = 0
       THEN [exc |-> "none", count |-> 0, self |-> self, saved |-> FALSE]
       ELSE IF remove = {}
       THEN [exc |-> "none", count |-> 0, self |-> self, saved |-> FALSE]
       ELSE IF ~has_some_embeddings(self)
       THEN [exc |-> "none", count |-> Cardinality(remove),
             self |-> [self EXCEPT !.texts = PopAll(@, remove),
                                   !.metadata = PopAll(@, remove),
                                   !.embeddings = PopAll(@, remove)],
             saved |-> TRUE]
       ELSE IF built.exc # "none"
       THEN [exc |-> built.exc, count |-> 0, self |-> self, saved |-> FALSE]
       ELSE [exc |-> "none", count |-> Cardinality(remove),
             self |-> [self EXCEPT !.index = built.index, !.texts = built.texts,
                                   !.metadata = built.metadata,
                                   !.embeddings = built.embeddings],
             saved |-> TRUE]

\* VectorDB.clear: the object afterwards.
clear(self) ==
    [self EXCEPT !.index = IndexFlatL2(self.dimension),
                 !.texts = <<>>, !.metadata = <<>>, !.embeddings = <<>>]

\* A removal of the pickle that leaves the index file behind.
remove_pickle_only(d) == [d EXCEPT ![IndexPath] = Absent]

\* VectorDB.clear: os.remove of the pickle and of the index file, where present.
remove_files(d) == [d EXCEPT ![IndexPath] = Absent, ![IndexFile] = Absent]

\* Python's None where an integer may stand (a chunk_index).
NoneIndex == 0 - 1

\* `filename = meta.get("filename")` followed by `if filename:`.
has_filename(meta) == "filename" \in DOMAIN meta /\ meta.filename # ""

\* VectorDB.get_file_info: the values of the file_info dict, in the order in
\* which their keys were inserted.
get_file_info(self) ==
    LET F[n \in 0..Len(self.metadata)] ==
            IF n = 0 THEN <<>>
            ELSE LET file_info == F[n - 1]
                     meta == self.metadata[n]
                     known == {j \in DOMAIN file_info : file_info[j].filename = meta.filename}
                     created == IF known = {}
                                THEN Append(file_info, [filename |-> meta.filename,
                                                        chunks |-> 0,
                                                        first_chunk_index |-> NoneIndex])
                                ELSE file_info
                     at == CHOOSE j \in DOMAIN created : created[j].filename = meta.filename
                     counted == [created EXCEPT ![at].chunks = @ + 1]
                 IN IF ~has_filename(meta) THEN file_info
                    ELSE IF counted[at].first_chunk_index = NoneIndex
                    THEN [counted EXCEPT ![at].first_chunk_index = Get(meta, "chunk_index", 0)]
                    ELSE counted
    IN F[Len(self.metadata)]

\* ------------------------------------------------------- the state machine

\* Snapshots left by the earlier format, which stored no embeddings: the index
\* file with the vectors, and a pickle of texts, metadata and dimension.
LegacyChunk(i) ==
    IF i % 2 = 1 THEN <<ConstVec(Dim, Lo), "t1", Meta("a.txt")>>
    ELSE <<ConstVec(Dim, Hi), "t2", Meta("b.txt")>>

LegacyDisk(recs) ==
    [NoFiles EXCEPT
        ![IndexFile] = FaissFile([d |-> Dim,
                                  xb |-> np_array([i \in DOMAIN recs |-> recs[i][1]]).rows]),
        ![IndexPath] = PickleFile([texts |-> [i \in DOMAIN recs |-> recs[i][2]],
                                   metadata |-> [i \in DOMAIN recs |-> recs[i][3]],
                                   dimension |-> Dim])]

LegacyDisks == {LegacyDisk([i \in 1..n |-> LegacyChunk(i)]) : n \in 1..MaxRecords}

\* Disks on which a file is missing or unreadable, the other one absent,
\* unreadable or that of a one-chunk snapshot.
DamagedDisks ==
    LET good == LegacyDisk(<<LegacyChunk(1)>>)
    IN {d \in [Files -> {Absent, Unreadable} \cup {good[f] : f \in Files}] :
           /\ \A f \in Files : d[f] \in {Absent, Unreadable, good[f]}
           /\ d # good
           /\ d # NoFiles}

\* The snapshot of a store that was constructed with another dimension.
ForeignDisk ==
    LET v == CHOOSE x \in BadVectors : TRUE
    IN save([dimension |-> Len(v),
             index |-> [d |-> Len(v), xb |-> np_array(<<v>>).rows],
             texts |-> <<"t1">>,
             metadata |-> <<Meta("a.txt")>>,
             embeddings |-> <<Some(v)>>], NoFiles)

InitialDisks == {NoFiles, ForeignDisk} \cup LegacyDisks \cup DamagedDisks

NoCall == [op |-> "none"]
NoFrame == [pc |-> "none"]
Returned == [exc |-> "none"]

Idle == call.op = "none"

SetSelf(self) ==
    /\ dimension' = self.dimension
    /\ index' = self.index
    /\ texts' = self.texts
    /\ metadata' = self.metadata
    /\ embeddings' = self.embeddings

\* The service constructs its store at start-up, on whatever the disk holds.
Init ==
    /\ disk \in InitialDisks
    /\ dimension = new(Dim, disk).dimension
    /\ index = new(Dim, disk).index
    /\ texts = new(Dim, disk).texts
    /\ metadata = new(Dim, disk).metadata
    /\ embeddings = new(Dim, disk).embeddings
    /\ call = [op |-> "__init__"]
    /\ ret = Returned
    /\ frame = NoFrame

\* The service restarts: a fresh VectorDB on the same index_path.
Restart ==
    /\ Idle
    /\ SetSelf(new(Dim, disk))
    /\ UNCHANGED frame
    /\ call' = [op |-> "__init__"]
    /\ ret' = Returned
    /\ UNCHANGED disk

AddDocuments(embs, txts, meta) ==
    LET r == add_documents(Self, embs, txts, meta)
    IN /\ Idle
       /\ Len(r.self.texts) <= MaxRecords
       /\ Len(r.self.metadata) <= MaxRecords
       /\ ntotal(r.self.index) <= MaxRecords
       /\ SetSelf(r.self)
       /\ disk' = IF r.saved THEN save(r.self, disk) ELSE disk
       /\ UNCHANGED frame
       /\ call' = [op |-> "add_documents", embeddings |-> embs, texts |-> txts,
                   metadata |-> meta]
       /\ ret' = [exc |-> r.exc]

Search(query_embedding, k) ==
    /\ Idle
    /\ UNCHANGED frame
    /\ call' = [op |-> "search", query_embedding |-> query_embedding, k |-> k]
    /\ ret' = search(Self, query_embedding, k)
    /\ UNCHANGED <<store, disk>>

DeleteDocumentsByFilename(filename) ==
    LET r == delete_documents_by_filename(Self, filename)
    IN /\ Idle
       /\ SetSelf(r.self)
       /\ disk' = IF r.saved THEN save(r.self, disk) ELSE disk
       /\ UNCHANGED frame
       /\ call' = [op |-> "delete_documents_by_filename", filename |-> filename]
       /\ ret' = [exc |-> r.exc, count |-> r.count]

Clear ==
    /\ Idle
    /\ SetSelf(clear(Self))
    /\ disk' = remove_files(disk)
    /\ UNCHANGED frame
    /\ call' = [op |-> "clear"]
    /\ ret' = Returned

\* The process dies inside the save() of an add_documents or
\* delete_documents_by_filename call, after the index file was written and
\* before the pickle was; the service is started again on what the disk holds.
CrashInSave ==
    /\ Idle
    /\ \E r \in {add_documents(Self, args[1], args[2], args[3]) : args \in AddArgs}
              \cup {delete_documents_by_filename(Self, f) : f \in Filenames} :
          /\ r.saved
          /\ ntotal(r.self.index) <= MaxRecords
          /\ disk' = write_index(r.self, disk)
    /\ SetSelf(new(Dim, disk'))
    /\ UNCHANGED frame
    /\ call' = [op |-> "__init__"]
    /\ ret' = Returned

\* The caller takes the result; the store is ready for the next call.
Return ==
    /\ ~Idle
    /\ UNCHANGED frame
    /\ call' = NoCall
    /\ ret' = Returned
    /\ UNCHANGED <<store, disk>>

Next ==
    \/ \E args \in AddArgs : AddDocuments(args[1], args[2], args[3])
    \/ \E q \in Queries, k \in Ks : Search(q, k)
    \/ \E f \in Filenames : DeleteDocumentsByFilename(f)
    \/ Clear
    \/ Restart
    \/ CrashInSave
    \/ Return

Spec == Init /\ [][Next]_vars

\* ------------------------------------------ get_file_info on its own inputs

\* The longest metadata list get_file_info is given.
MaxMetadata == 3

\* Metadata entries: of a.txt with chunk_index missing, 1 and None; of b.txt;
\* with an empty filename; and the empty dict.
InfoMetas ==
    {EmptyDict, Meta("a.txt"), Meta("b.txt"), Meta(""),
     [filename |-> "a.txt", chunk_index |-> 1],
     [filename |-> "a.txt", chunk_index |-> NoneIndex]}

\* The store that add_documents calls of one record each, with the metadata
\* of metas, leave behind.
StoreWith(metas) ==
    [dimension |-> Dim,
     index |-> [d |-> Dim, xb |-> np_array(Repeat(ConstVec(Dim, Lo), Len(metas))).rows],
     texts |-> Repeat("t1", Len(metas)),
     metadata |-> metas,
     embeddings |-> Repeat(Some(ConstVec(Dim, Lo)), Len(metas))]

FileInfoInit ==
    /\ \E metas \in SeqsOfLen(InfoMetas, 0..MaxMetadata) :
          /\ dimension = StoreWith(metas).dimension
          /\ index = StoreWith(metas).index
          /\ texts = StoreWith(metas).texts
          /\ metadata = metas
          /\ embeddings = StoreWith(metas).embeddings
          /\ disk = save(StoreWith(metas), NoFiles)
    /\ call = NoCall
    /\ ret = Returned
    /\ frame = NoFrame

GetFileInfo ==
    /\ Idle
    /\ UNCHANGED frame
    /\ call' = [op |-> "get_file_info"]
    /\ ret' = [exc |-> "none", file_info |-> get_file_info(Self)]
    /\ UNCHANGED <<store, disk>>

FileInfoNext == GetFileInfo \/ Return

FileInfoSpec == FileInfoInit /\ [][FileInfoNext]_vars

\* ------------------------------------------------- text_processor.chunk_text

\* The longest text, the largest chunk_size and the largest overlap given to
\* chunk_text.
MaxLen == 5
MaxChunkSize == 4
MaxOverlap == 4

\* The number of chunks the memory holds: one append more raises MemoryError.
\* A call whose start advances appends fewer chunks than the text has
\* characters, so it stays below it.
MaxChunks == 6

\* The characters of a text: a letter, a sentence ending, a blank.
Chars == {"a", ".", " "}
Strings == SeqsOfLen(Chars, 0..MaxLen)

sentence_endings == {".", "!", "?", "\n"}
Whitespace == {" ", "\t", "\n", "\r"}

\* How far back from the chunk boundary a sentence ending is looked for.
Lookback == 200

Max(a, b) == IF a >= b THEN a ELSE b

\* str.strip()
RECURSIVE lstrip(_)
lstrip(t) == IF t # <<>> /\ Head(t) \in Whitespace THEN lstrip(Tail(t)) ELSE t

RECURSIVE rstrip(_)
rstrip(t) ==
    IF t # <<>> /\ t[Len(t)] \in Whitespace THEN rstrip(SubSeq(t, 1, Len(t) - 1)) ELSE t

strip(t) == rstrip(lstrip(t))

\* text[i] for a Python index i with -len(text) <= i < len(text).
At(t, i) == IF i >= 0 THEN t[i + 1] ELSE t[Len(t) + i + 1]

\* A slice bound as Python normalises it: negative bounds count from the end,
\* and all are clipped to 0..len.
Clip(i, n) == IF i < 0 THEN Max(i + n, 0) ELSE Min(i, n)

\* text[a:b]
Slice(t, a, b) ==
    IF Clip(a, Len(t)) >= Clip(b, Len(t)) THEN <<>>
    ELSE SubSeq(t, Clip(a, Len(t)) + 1, Clip(b, Len(t)))

\* One pass through the body of chunk_text's while loop from `start`: the
\* exception raised, or the end position, the chunk and the next start.
iteration(t, chunk_size, overlap, start) ==
    LET end == start + chunk_size
        range == (Max(start, end - Lookback) + 1)..end
        found == {i \in range : i >= 0 - Len(t) /\ At(t, i) \in sentence_endings}
        break == CHOOSE i \in found : \A j \in found : j <= i
        end2 == IF end < Len(t) /\ found # {} THEN break + 1 ELSE end
        moved == end2 - overlap
    IN IF end < Len(t) /\ found = {} /\ \E i \in range : i < 0 - Len(t)
       THEN [exc |-> "IndexError"]
       ELSE [exc |-> "none",
             end |-> end2,
             chunk |-> strip(Slice(t, start, end2)),
             start |-> IF moved >= end2 THEN end2 ELSE moved]

\* The windows [start, end) of the iterations so far, in order; an iteration
\* that repeats the window of the one before it adds nothing.
Visit(windows, w) ==
    IF windows # <<>> /\ windows[Len(windows)] = w THEN windows ELSE Append(windows, w)

\* A chunk_text call is about to run on its arguments.
ChunkInit ==
    /\ \E t \in Strings, chunk_size \in 1..MaxChunkSize, overlap \in 0..MaxOverlap :
          call = [op |-> "chunk_text", text |-> t, chunk_size |-> chunk_size,
                  overlap |-> overlap]
    /\ frame = [pc |-> "entry"]
    /\ ret = Returned
    /\ disk = NoFiles
    /\ dimension = Dim
    /\ index = IndexFlatL2(Dim)
    /\ texts = <<>> /\ metadata = <<>> /\ embeddings = <<>>

\* Lines 19-26: the empty result for a blank text, else the stripped text
\* and start = 0.
ChunkEnter ==
    /\ frame.pc = "entry"
    /\ IF Not(call.text) \/ Len(strip(call.text)) = 0
       THEN /\ frame' = [pc |-> "done"]
            /\ ret' = [exc |-> "none", chunks |-> <<>>]
       ELSE /\ frame' = [pc |-> "loop", text |-> strip(call.text), start |-> 0,
                         chunks |-> <<>>, windows |-> <<>>]
            /\ ret' = ret
    /\ UNCHANGED <<store, disk, call>>

\* Lines 27-50: one iteration of the while loop.
ChunkStep ==
    LET it == iteration(frame.text, call.chunk_size, call.overlap, frame.start)
    IN /\ frame.pc = "loop"
       /\ frame.start < Len(frame.text)
       /\ IF it.exc # "none"
          THEN /\ frame' = [pc |-> "raised"]
               /\ ret' = [exc |-> it.exc]
          ELSE IF it.chunk # <<>> /\ Len(frame.chunks) >= MaxChunks
          THEN /\ frame' = [pc |-> "raised"]
               /\ ret' = [exc |-> "MemoryError"]
          ELSE /\ frame' = [frame EXCEPT
                                !.start = it.start,
                                !.chunks = IF it.chunk # <<>> THEN Append(@, it.chunk) ELSE @,
                                !.windows = Visit(@, <<frame.start, it.end>>)]
               /\ ret' = ret
       /\ UNCHANGED <<store, disk, call>>

\* Line 52: the loop is left and the chunks are returned.
ChunkExit ==
    /\ frame.pc = "loop"
    /\ frame.start >= Len(frame.text)
    /\ frame' = [pc |-> "done", windows |-> frame.windows, text |-> frame.text]
    /\ ret' = [exc |-> "none",
               chunks |-> IF frame.chunks # <<>> THEN frame.chunks ELSE <<frame.text>>]
    /\ UNCHANGED <<store, disk, call>>

ChunkNext == ChunkEnter \/ ChunkStep \/ ChunkExit

ChunkSpec == ChunkInit /\ [][ChunkNext]_vars

\* ------------------------------------------------------------------ claims

\* The call that has just returned (or raised) changes the store when it
\* succeeds.
Mutating == {"add_documents", "delete_documents_by_filename", "clear"}

\* C1: after each add_documents, delete_documents_by_filename or clear call,
\* size() == len(texts) == len(metadata).
C1_SizesAgree ==
    call.op \in Mutating =>
        /\ size(Self) = Len(texts)
        /\ Len(texts) = Len(metadata)

\* C2: after each mutating call the index holds exactly one vector per record,
\* and position i of the index holds the (float32) embedding stored in
\* embeddings[i], so that the text search returns for a label is the text of
\* the record whose vector matched.  A position whose embedding was not
\* retained (None) is not held against the claim.
C2_PositionalCorrespondence ==
    call.op \in Mutating =>
        /\ ntotal(index) = Len(texts)
        /\ \A i \in 1..ntotal(index) :
              i <= Len(embeddings) /\ ~embeddings[i].none
                  => index.xb[i] = np_array(<<embeddings[i].v>>).rows[1]

\* C3: in every state, and so after every add_documents,
\* delete_documents_by_filename or clear call, a fresh VectorDB constructed on
\* the same index_path holds the same texts, metadata and embeddings, in the
\* same order, and the same index vectors as the store in memory.
C3_ReloadYieldsMemory ==
    LET fresh == new(Dim, disk)
    IN /\ fresh.texts = texts
       /\ fresh.metadata = metadata
       /\ fresh.embeddings = embeddings
       /\ ntotal(fresh.index) = ntotal(index)
       /\ fresh.index.xb = index.xb

\* C3 witness: an add_documents call has stored records, and the reload
\* returns them.
C3_Witness ==
    /\ call.op = "add_documents"
    /\ ret.exc = "none"
    /\ Len(texts) = MaxRecords
    /\ disk[IndexPath].exists
    /\ new(Dim, disk).texts = texts
    /\ new(Dim, disk).embeddings = embeddings

\* The elements of l outside the positions `gone`, in order.
Without(l, gone) ==
    LET W[n \in 0..Len(l)] ==
            IF n = 0 THEN <<>>
            ELSE IF n \in gone THEN W[n - 1] ELSE Append(W[n - 1], l[n])
    IN W[Len(l)]

\* The records (positions of texts) whose metadata names file f.
RecordsOf(f) ==
    {i \in 1..Len(texts) :
        /\ i <= Len(metadata)
        /\ "filename" \in DOMAIN metadata[i]
        /\ metadata[i].filename = f}

AllRetained == \A i \in DOMAIN embeddings : ~embeddings[i].none

\* What C4 says of one delete_documents_by_filename(f) call.
DeletesExactly(f) ==
    /\ ret'.exc = "none"
    /\ ret'.count = Cardinality(RecordsOf(f))
    /\ texts' = Without(texts, RecordsOf(f))
    /\ embeddings' = Without(embeddings, RecordsOf(f))
    /\ metadata' = Without(metadata, RecordsOf(f))
    /\ RecordsOf(f) # {} =>
          index'.xb = [i \in DOMAIN embeddings' |-> np_array(<<embeddings'[i].v>>).rows[1]]
    /\ RecordsOf(f) = {} => UNCHANGED <<store, disk>>
    /\ delete_documents_by_filename(Self', f).count = 0
    /\ delete_documents_by_filename(Self', f).self = Self'

\* C4: on a store whose records all retain their embeddings,
\* delete_documents_by_filename(f) removes exactly the records of f, keeps the
\* others in order, returns the number removed, changes nothing when nothing
\* matches, and a repeated call returns 0 and changes nothing.
C4_DeleteRemovesExactly ==
    [][(call'.op = "delete_documents_by_filename" /\ AllRetained)
           => DeletesExactly(call'.filename)]_vars

\* The same on stores whose index, texts and metadata agree in length.
C4_OnAlignedStore ==
    [][(/\ call'.op = "delete_documents_by_filename"
        /\ AllRetained
        /\ ntotal(index) = Len(texts)
        /\ Len(metadata) = Len(texts)) => DeletesExactly(call'.filename)]_vars

\* Some embedding of the call's batch has not the store's dimension.
WrongDimension(c) == \E i \in DOMAIN c.embeddings : Len(c.embeddings[i]) # dimension

Failed == ret'.exc # "none" /\ UNCHANGED <<store, disk>>

\* C5 as stated: add_documents with a batch in which any embedding's length
\* differs from the store's dimension fails with an error and leaves index,
\* texts, metadata, embeddings and the persisted files unchanged.
C5_WrongDimensionFails ==
    [][(call'.op = "add_documents" /\ WrongDimension(call')) => Failed]_vars

\* C5 amended: the same, when the texts list is not empty.
C5_WrongDimensionFailsGivenTexts ==
    [][(/\ call'.op = "add_documents"
        /\ WrongDimension(call')
        /\ ~Not(call'.texts)) => Failed]_vars

\* C5 witness: a batch of as many embeddings as texts, some of the right and
\* some of the wrong dimension, was refused by a store that holds records.
C5_Witness ==
    /\ call.op = "add_documents"
    /\ Len(call.embeddings) = Len(call.texts)
    /\ \E i, j \in DOMAIN call.embeddings :
          Len(call.embeddings[i]) = dimension /\ Len(call.embeddings[j]) # dimension
    /\ ret.exc # "none"
    /\ Len(texts) > 0

\* The float32 distance from query q to the embedding of record i.
DistanceTo(q, i) ==
    L2sqr(np_array(<<q>>).rows[1], np_array(<<embeddings[i].v>>).rows[1])

\* The triple search owes for record i.
TripleOf(q, i) ==
    <<texts[i], DistanceTo(q, i),
      IF i <= Len(metadata) THEN metadata[i] ELSE EmptyDict>>

\* res lists records by ascending distance from q, equal distances by lower
\* position, with no nearer record left out.
RankedPrefix(q, res) ==
    \E pos \in [1..Len(res) -> 1..Len(texts)] :
        /\ \A j \in 1..Len(res) : res[j] = TripleOf(q, pos[j])
        /\ \A j \in 1..(Len(res) - 1) :
              \/ DistanceTo(q, pos[j]) < DistanceTo(q, pos[j + 1])
              \/ DistanceTo(q, pos[j]) = DistanceTo(q, pos[j + 1]) /\ pos[j] < pos[j + 1]
        /\ \A j \in 1..Len(res) : \A i \in 1..Len(texts) :
              \/ \E n \in 1..Len(res) : pos[n] = i
              \/ DistanceTo(q, pos[j]) < DistanceTo(q, i)
              \/ DistanceTo(q, pos[j]) = DistanceTo(q, i) /\ pos[j] < i

\* C6: search(q, k) on a store of N >= 1 records returns, without raising, at
\* most min(k, N) triples; when every record retains its embedding they are
\* ordered by ascending squared-L2 distance, equal distances by lower position,
\* and a query equal to a stored embedding gets a first triple of distance 0.
C6_SearchRanksRecords ==
    (call.op = "search" /\ Len(texts) >= 1) =>
        /\ ret.exc = "none"
        /\ Len(ret.results) <= Min(call.k, Len(texts))
        /\ AllRetained =>
              /\ RankedPrefix(call.query_embedding, ret.results)
              /\ (\E i \in 1..Len(texts) : embeddings[i].v = call.query_embedding)
                     => Len(ret.results) >= 1 /\ ret.results[1][2] = 0

\* C7: in every state in which the store holds zero records, search with any
\* query and any k >= 1 returns an empty sequence and raises nothing.
C7_EmptyStoreSearch ==
    (call.op = "search" /\ Len(texts) = 0) =>
        ret.exc = "none" /\ ret.results = <<>>

\* C8: clear() raises nothing, leaves an empty index and empty texts, metadata
\* and embeddings, removes both persisted files so that a fresh VectorDB on
\* the same index_path starts empty, and a second clear() changes nothing.
C8_ClearEmptiesAndRemoves ==
    [][call'.op = "clear" =>
          /\ ret'.exc = "none"
          /\ ntotal(index') = 0
          /\ texts' = <<>> /\ metadata' = <<>> /\ embeddings' = <<>>
          /\ \A f \in Files : ~disk'[f].exists
          /\ ntotal(new(Dim, disk').index) = 0
          /\ new(Dim, disk').texts = <<>>
          /\ new(Dim, disk').metadata = <<>>
          /\ new(Dim, disk').embeddings = <<>>
          /\ clear(Self') = Self'
          /\ remove_files(disk') = disk']_vars

\* C8 witness: clear() has returned, the store is empty and no file is left.
C8_Witness ==
    /\ call.op = "clear"
    /\ ret.exc = "none"
    /\ ntotal(index) = 0 /\ texts = <<>>
    /\ \A f \in Files : ~disk[f].exists

\* C9: add_documents with an empty embeddings list or an empty texts list
\* raises nothing and leaves index, texts, metadata, embeddings and the
\* persisted files unchanged.
C9_EmptyListIsNoOp ==
    [][(/\ call'.op = "add_documents"
        /\ (Not(call'.embeddings) \/ Not(call'.texts)))
           => (ret'.exc = "none" /\ UNCHANGED <<store, disk>>)]_vars

\* C9 witness: a call with embeddings but no texts returned on a store that
\* holds records.
C9_Witness ==
    /\ call.op = "add_documents"
    /\ ~Not(call.embeddings) /\ Not(call.texts)
    /\ ret.exc = "none"
    /\ Len(texts) > 0

\* C10: add_documents with non-empty embeddings and texts of different
\* lengths raises ValueError and leaves index, texts, metadata, embeddings
\* and the persisted files unchanged.
C10_LengthMismatchRaises ==
    [][(/\ call'.op = "add_documents"
        /\ ~Not(call'.embeddings) /\ ~Not(call'.texts)
        /\ Len(call'.embeddings) # Len(call'.texts))
           => (ret'.exc = "ValueError" /\ UNCHANGED <<store, disk>>)]_vars

\* C10 witness: a call with two embeddings and one text raised ValueError on
\* a store that holds records.
C10_Witness ==
    /\ call.op = "add_documents"
    /\ Len(call.embeddings) > Len(call.texts) /\ Len(call.texts) > 0
    /\ ret.exc = "ValueError"
    /\ Len(texts) > 0

\* The metadata argument of call c is a list of another length than its texts.
MetadataMismatch(c) == c.metadata.given /\ Len(c.metadata.list) # Len(c.texts)

\* C11: add_documents with a metadata list whose length differs from
\* len(texts) fails, and adds nothing to index, texts, metadata or embeddings.
C11_MetadataMismatchFails ==
    [][(call'.op = "add_documents" /\ MetadataMismatch(call'))
           => (ret'.exc # "none" /\ UNCHANGED store)]_vars

\* The add_documents call c returned normally with a batch of n >= 1 records.
Inserted(c, r) ==
    /\ c.op = "add_documents"
    /\ r.exc = "none"
    /\ Len(c.texts) >= 1 /\ Len(c.embeddings) = Len(c.texts)

\* The metadata the call c owes its j-th record.
MetadataFor(c, j) ==
    IF c.metadata.given /\ j <= Len(c.metadata.list) THEN c.metadata.list[j] ELSE EmptyDict

\* What C12 says of one successful add_documents call into a store of
\* Len(texts) records.
AppendsInLockStep(c) ==
    LET m == Len(texts)
        n == Len(c.texts)
    IN /\ Len(texts') = m + n /\ Len(metadata') = m + n /\ Len(embeddings') = m + n
       /\ \A i \in 1..m :
             /\ texts'[i] = texts[i]
             /\ i <= Len(metadata) /\ metadata'[i] = metadata[i]
             /\ i <= Len(embeddings) /\ embeddings'[i] = embeddings[i]
       /\ \A j \in 1..n :
             /\ texts'[m + j] = c.texts[j]
             /\ embeddings'[m + j] = Some(c.embeddings[j])
             /\ metadata'[m + j] = MetadataFor(c, j)
       /\ ~c.metadata.given => \A j \in 1..n : metadata'[m + j] = EmptyDict
       /\ index'.xb = index.xb \o np_array(c.embeddings).rows

\* C12: a successful add_documents of n >= 1 records into a store of m
\* records leaves m+n records, the first m as they were, the last n the new
\* (embedding, text, metadata) triples in the order given, with empty
\* metadata when no metadata list was supplied.
C12_AppendsInLockStep ==
    [][Inserted(call', ret') => AppendsInLockStep(call')]_vars

\* The same on stores whose metadata and embeddings are as long as texts, for
\* calls whose metadata list, if given, is as long as texts.
C12_OnAlignedStore ==
    [][(/\ Inserted(call', ret')
        /\ Len(metadata) = Len(texts) /\ Len(embeddings) = Len(texts)
        /\ ~MetadataMismatch(call')) => AppendsInLockStep(call')]_vars

\* The store holds nothing.
Empty ==
    /\ ntotal(index) = 0
    /\ texts = <<>> /\ metadata = <<>> /\ embeddings = <<>>

\* Either file is missing, or reading it raises.
NoPriorState(d) == \E f \in Files : ~d[f].exists \/ d[f].kind = "corrupt"

\* C13: a VectorDB constructed on a disk where either file is absent, or
\* where reading either one raises, is returned normally and holds an empty
\* index and empty texts, metadata and embeddings.
C13_ConstructorStartsEmpty ==
    (call.op = "__init__" /\ NoPriorState(disk)) => (ret.exc = "none" /\ Empty)

\* C13 witness: the store was constructed next to a readable index file and
\* an unreadable pickle, and is empty.
C13_Witness ==
    /\ call.op = "__init__"
    /\ disk[IndexFile].exists /\ disk[IndexFile].kind = "faiss"
    /\ ntotal(disk[IndexFile].data) > 0
    /\ disk[IndexPath].exists /\ disk[IndexPath].kind = "corrupt"
    /\ Empty

\* Both files can be read and hold different numbers of records.
Disagree(d) ==
    /\ ~NoPriorState(d)
    /\ ntotal(d[IndexFile].data) # Len(Get(d[IndexPath].data, "texts", <<>>))

\* C14: a VectorDB constructed on an index file and a pickle that disagree in
\* record count starts empty, and every constructed store has
\* index.ntotal == len(texts) == len(metadata).
C14_LoadsOnlyConsistentFiles ==
    call.op = "__init__" =>
        /\ Disagree(disk) => Empty
        /\ ntotal(index) = Len(texts)
        /\ Len(texts) = Len(metadata)

\* C15: in every state self.dimension is the dimension the constructor was
\* given, and is the dimension of self.index.
C15_DimensionFixed == dimension = Dim /\ index.d = dimension

\* C16: a delete_documents_by_filename call that raises leaves index, texts,
\* metadata, embeddings and both persisted files as they were, so that a
\* fresh VectorDB sees the prior state too.
C16_FailedDeleteChangesNothing ==
    [][(call'.op = "delete_documents_by_filename" /\ ret'.exc # "none")
           => (UNCHANGED <<store, disk>> /\ new(Dim, disk') = new(Dim, disk))]_vars

\* C16 witness: the rebuild re-inserted the embedding of a retained record
\* into the fresh index, failed after that, and the store still holds its
\* records.
C16_Witness ==
    /\ call.op = "delete_documents_by_filename"
    /\ ret.exc # "none"
    /\ indices_to_remove(Self, call.filename) # {}
    /\ \E i \in DOMAIN embeddings :
          i \notin indices_to_remove(Self, call.filename) /\ ~embeddings[i].none
    /\ ntotal(index) > 0 /\ Len(texts) > 0

\* The metadata positions that carry a filename, and those of file f.
Named == {i \in DOMAIN metadata : has_filename(metadata[i])}
NamedAs(f) == {i \in Named : metadata[i].filename = f}
Earliest(f) == CHOOSE i \in NamedAs(f) : \A j \in NamedAs(f) : i <= j

RECURSIVE SumOfChunks(_)
SumOfChunks(info) ==
    IF info = <<>> THEN 0 ELSE Head(info).chunks + SumOfChunks(Tail(info))

\* What C17 says of the list info that get_file_info returned.
SummarisesMetadata(info) ==
    /\ \A i \in Named : \E j \in DOMAIN info : info[j].filename = metadata[i].filename
    /\ \A j \in DOMAIN info : NamedAs(info[j].filename) # {}
    /\ \A j, k \in DOMAIN info : info[j].filename = info[k].filename => j = k
    /\ \A j, k \in DOMAIN info :
          j < k => Earliest(info[j].filename) < Earliest(info[k].filename)
    /\ \A j \in DOMAIN info :
          /\ info[j].chunks = Cardinality(NamedAs(info[j].filename))
          /\ info[j].first_chunk_index
                 = Get(metadata[Earliest(info[j].filename)], "chunk_index", 0)
    /\ SumOfChunks(info) = Cardinality(Named)

\* C17: get_file_info returns one entry per distinct non-empty filename of
\* the metadata, in order of first appearance, with chunks the number of
\* entries of that filename and first_chunk_index the chunk_index of the
\* earliest one (0 when that entry has none); it changes neither the index
\* nor texts, metadata or embeddings; the chunks sum to the number of entries
\* that carry a filename.
C17_FileInfoSummarises ==
    [][call'.op = "get_file_info" =>
          /\ UNCHANGED <<store, disk>>
          /\ ret'.exc = "none"
          /\ SummarisesMetadata(ret'.file_info)]_vars

\* The same for metadata in which no chunk_index is None.
C17_OnIntegerChunkIndices ==
    [][(/\ call'.op = "get_file_info"
        /\ \A i \in DOMAIN metadata : Get(metadata[i], "chunk_index", 0) # NoneIndex)
           => (/\ UNCHANGED <<store, disk>>
               /\ ret'.exc = "none"
               /\ SummarisesMetadata(ret'.file_info))]_vars

\* The chunk_text call is over: it returned or raised.
Over == frame.pc \in {"done", "raised"}

\* C18: chunk_text on a text whose trimmed length is at least 1 and less
\* than chunk_size, with 0 <= overlap < chunk_size, returns exactly one chunk,
\* the trimmed text.
C18_ShortTextIsOneChunk ==
    (/\ call.op = "chunk_text" /\ Over
     /\ Len(strip(call.text)) >= 1
     /\ Len(strip(call.text)) < call.chunk_size
     /\ call.overlap < call.chunk_size)
        => (ret.exc = "none" /\ ret.chunks = <<strip(call.text)>>)

\* The same when the next start, chunk_size - overlap, is not inside the text.
C18_WhenOverlapIsSmall ==
    (/\ call.op = "chunk_text" /\ Over
     /\ Len(strip(call.text)) >= 1
     /\ Len(strip(call.text)) < call.chunk_size
     /\ call.chunk_size - call.overlap >= Len(strip(call.text)))
        => (ret.exc = "none" /\ ret.chunks = <<strip(call.text)>>)

\* C19: for every text, chunk_size >= 1 and overlap >= 0, the start position
\* of chunk_text's loop is strictly larger in each iteration than in the one
\* before.
C19_StartAdvances ==
    [][(frame.pc = "loop" /\ frame'.pc = "loop") => frame'.start > frame.start]_vars

\* The same for overlap < chunk_size.
C19_StartAdvancesOverlapBelowSize ==
    [][(frame.pc = "loop" /\ frame'.pc = "loop" /\ call.overlap < call.chunk_size)
           => frame'.start > frame.start]_vars

\* The windows cover the text t as C20 says, each starting `overlap`
\* positions before the end of the one before it.
Covers(windows, t, overlap) ==
    /\ windows # <<>>
    /\ windows[1][1] = 0
    /\ \A i \in 1..(Len(windows) - 1) :
          /\ windows[i + 1][1] = windows[i][2] - overlap
          /\ windows[i][1] <= windows[i + 1][1]
          /\ windows[i + 1][1] < windows[i][2]
    /\ Min(windows[Len(windows)][2], Len(t)) = Len(t)
    /\ \A pos \in 0..(Len(t) - 1) :
          \E i \in DOMAIN windows : windows[i][1] <= pos /\ pos < windows[i][2]

\* The arguments C20 is about: a text longer than chunk_size, and
\* 0 < overlap < chunk_size.
LongText ==
    /\ call.op = "chunk_text"
    /\ Len(strip(call.text)) > call.chunk_size
    /\ 0 < call.overlap /\ call.overlap < call.chunk_size

\* C20: for a text longer than chunk_size and 0 < overlap < chunk_size,
\* chunk_text returns, and its windows overlap and cover the text: the first
\* starts at 0, each next one starts overlap positions before the end of the
\* one before it, the last ends at the end of the trimmed text, and every
\* position lies in a window.
C20_WindowsCoverText ==
    (LongText /\ Over) =>
        (frame.pc = "done" /\ Covers(frame.windows, frame.text, call.overlap))

\* The same for the calls that return.
C20_WhenItReturns ==
    (LongText /\ frame.pc = "done") => Covers(frame.windows, frame.text, call.overlap)

\* C21: every chunk chunk_text returns has at most chunk_size characters,
\* wherever the sentence endings of the text are, a sentence ending at
\* position start + chunk_size included.
C21_ChunksFitChunkSize ==
    (call.op = "chunk_text" /\ frame.pc = "done") =>
        \A i \in DOMAIN ret.chunks : Len(ret.chunks[i]) <= call.chunk_size

\* The same with one character more: a chunk ends at most one position
\* after start + chunk_size, and no chunk is longer than the trimmed text.
C21_ChunksFitChunkSizePlusOne ==
    (call.op = "chunk_text" /\ frame.pc = "done") =>
        \A i \in DOMAIN ret.chunks :
            /\ Len(ret.chunks[i]) <= call.chunk_size + 1
            /\ Len(ret.chunks[i]) <= Len(strip(call.text))

\* No stored record retains an embedding.
NoneRetained == \A i \in DOMAIN embeddings : embeddings[i].none

\* The positions of metadata that name file f.
Matching(f) ==
    {i \in DOMAIN metadata : "filename" \in DOMAIN metadata[i] /\ metadata[i].filename = f}

\* What C25 says of one delete_documents_by_filename(f) call on the legacy
\* path.
LegacyDeletes(f) ==
    /\ ret'.exc = "none"
    /\ ret'.count = Cardinality(Matching(f))
    /\ texts' = Without(texts, Matching(f))
    /\ metadata' = Without(metadata, Matching(f))
    /\ embeddings' = Without(embeddings, Matching(f))
    /\ index' = index
    /\ dimension' = dimension
    /\ disk' = save(Self', disk)

\* C25: when every entry of embeddings is None,
\* delete_documents_by_filename(f) with at least one matching record removes
\* exactly the matching entries of texts, metadata and embeddings, keeps the
\* rest in order, leaves the index and its element count untouched, persists
\* the result and returns the number of matching records.
C25_LegacyDeleteKeepsIndex ==
    [][(/\ call'.op = "delete_documents_by_filename"
        /\ NoneRetained
        /\ Matching(call'.filename) # {}) => LegacyDeletes(call'.filename)]_vars

\* The same on a store whose index is not empty.
C25_OnNonEmptyIndex ==
    [][(/\ call'.op = "delete_documents_by_filename"
        /\ NoneRetained
        /\ ntotal(index) > 0
        /\ Matching(call'.filename) # {}) => LegacyDeletes(call'.filename)]_vars

\* ------------------------------------------------ utils/gpt_client_free.py

\* An exception message, as its words.
NeitherAvailable ==
    <<"Neither", "Ollama", "nor", "Hugging", "Face", "API", "is", "available.",
      "Please", "install", "Ollama", "(https://ollama.ai/)", "and", "run",
      "'ollama", "pull", "llama3.2'", "for", "free", "local", "LLM", "access.">>

AuthenticationFailed ==
    <<"Error", "generating", "answer", "with", "Hugging", "Face:", "Hugging", "Face",
      "API", "authentication", "failed", "(401).">>

\* What a backend call does: it returns a text, or raises with a message.
Returns(text) == [ok |-> TRUE, text |-> text]
Raises(type, msg) == [ok |-> FALSE, type |-> type, msg |-> msg]

\* _generate_with_ollama raises Exception, _generate_with_huggingface
\* ValueError.
OllamaOutcomes == {Returns("from ollama"), Raises("Exception", <<"Ollama", "error:">>)}
HuggingFaceOutcomes ==
    {Returns("from huggingface"), Raises("ValueError", AuthenticationFailed)}

\* A generate_answer that goes on to Hugging Face whatever Ollama did.
always_fall_back(out) == [pc |-> "huggingface"]

\* generate_answer, lines 42-46: after the Ollama call, the return of its
\* text, or the fall-back.
after_ollama(out) ==
    IF out.ok THEN [pc |-> "return", result |-> out] ELSE [pc |-> "huggingface"]

\* generate_answer, lines 48-55: after the Hugging Face call, the return of
\* its text, or the ValueError that stands for both failures.
after_huggingface(out) ==
    [pc |-> "return",
     result |-> IF out.ok THEN out ELSE Raises("ValueError", NeitherAvailable)]

\* ------------------------------------------------- backend/main_free.py

\* An exception a handler raises, and the HTTPException of a status.
HTTPException(status) == [ok |-> FALSE, type |-> "HTTPException", status |-> status]

\* The subclasses of ValueError that the handlers meet.
ValueErrors == {"ValueError", "UnicodeDecodeError"}

\* The except clauses that end upload_document and ask_question: an
\* HTTPException keeps its status, a ValueError becomes 400, anything else 500.
translate(e) ==
    IF e.type = "HTTPException" THEN e.status
    ELSE IF e.type \in ValueErrors THEN 400
    ELSE 500

\* str.lower() of a word.
lower(w) == IF w = "Authentication" THEN "authentication" ELSE w

\* `"401" in error_msg or "authentication" in error_msg.lower()`, on the
\* words of the message and their punctuation.
mentions_authentication(msg) ==
    \E i \in DOMAIN msg : msg[i] \in {"401", "(401).", "(401)"}
                          \/ lower(msg[i]) = "authentication"

\* ask_question, lines 210-223: the exception that leaves the inner handler
\* around generate_answer.
completion_failure(e) ==
    IF mentions_authentication(e.msg) THEN HTTPException(503) ELSE e

\* Questions: the empty one, a blank one, and one with a word in it.
Questions == {<<>>, <<" ">>, <<" ", "q">>}

\* The embedding the provider gives a chunk, and the ways a call to it ends.
embed(text) == IF text = "t1" THEN ConstVec(Dim, Lo) ELSE ConstVec(Dim, Hi)

Embedded(v) == [ok |-> TRUE, v |-> v]
EmbeddingError == Raises("ValueError", <<"Error", "generating", "embedding:">>)

\* Uploaded files: the name, and the content as what it decodes to: no
\* bytes, bytes that are no text, or the chunks chunk_text cuts its text into.
UploadNames == {"a.txt", "b.txt", "c.pdf", "d.exe"}

splitext(name) ==
    CASE name = "a.txt" -> <<"a", ".txt">>
      [] name = "b.txt" -> <<"b", ".txt">>
      [] name = "c.pdf" -> <<"c", ".pdf">>
      [] name = "d.exe" -> <<"d", ".exe">>

allowed_extensions == {".pdf", ".txt", ".text"}

Contents ==
    {[bytes |-> "none"], [bytes |-> "undecodable"]}
        \cup {[bytes |-> "text", chunks |-> c] : c \in SeqsOfLen(Texts, 0..MaxRecords)}

\* The store and the disk as a request finds them.
Before == [self |-> Self, disk |-> disk]

\* A handler ends: the response is its status.
Respond(status) ==
    /\ frame' = [pc |-> "done", log |-> frame.log, before |-> frame.before]
    /\ ret' = [status |-> status]

\* A request arrives while no other is served; an upload, while the store
\* has room for its chunks.
AskReceive(question) ==
    /\ Idle
    /\ call' = [op |-> "ask", question |-> question]
    /\ frame' = [pc |-> "ask", log |-> <<>>, before |-> Before]
    /\ UNCHANGED <<store, disk, ret>>

UploadReceive(filename, content) ==
    /\ Idle
    /\ content.bytes = "text" =>
          /\ Len(texts) + Len(content.chunks) <= MaxRecords
          /\ Len(metadata) + Len(content.chunks) <= MaxRecords
          /\ ntotal(index) + Len(content.chunks) <= MaxRecords
    /\ call' = [op |-> "upload", filename |-> filename, content |-> content]
    /\ frame' = [pc |-> "upload", log |-> <<>>, before |-> Before]
    /\ UNCHANGED <<store, disk, ret>>

\* ask_question, lines 179-189: the question is trimmed and checked, and the
\* store is checked for documents.
AskValidate ==
    /\ frame.pc = "ask"
    /\ IF Not(strip(call.question)) THEN Respond(400)
       ELSE IF size(Self) = 0 THEN Respond(400)
       ELSE /\ frame' = [frame EXCEPT !.pc = "generate_embedding"]
            /\ ret' = ret
    /\ UNCHANGED <<store, disk, call>>

\* ask_question, line 192: the embedding provider is called.
AskEmbed(out) ==
    /\ frame.pc = "generate_embedding"
    /\ LET log == Append(frame.log, "generate_embedding")
       IN IF out.ok
          THEN /\ frame' = [pc |-> "search", log |-> log, before |-> frame.before,
                            question_embedding |-> out.v]
               /\ ret' = ret
          ELSE /\ frame' = [pc |-> "done", log |-> log, before |-> frame.before]
               /\ ret' = [status |-> translate(out)]
    /\ UNCHANGED <<store, disk, call>>

\* ask_question, lines 195-204: the store is searched.
AskSearch ==
    LET found == search(Self, frame.question_embedding, 3)
        log == Append(frame.log, "search")
        raised == IF found.exc # "none" THEN Raises(found.exc, <<>>)
                  ELSE HTTPException(404)
    IN /\ frame.pc = "search"
       /\ IF found.exc # "none" \/ Not(found.results)
          THEN /\ frame' = [pc |-> "done", log |-> log, before |-> frame.before]
               /\ ret' = [status |-> translate(raised)]
          ELSE /\ frame' = [pc |-> "ollama", log |-> log, before |-> frame.before,
                            context_chunks |-> [i \in DOMAIN found.results |->
                                                    found.results[i][1]],
                            backends |-> <<>>]
               /\ ret' = ret
       /\ UNCHANGED <<store, disk, call>>

\* ask_question, lines 208-228 after generate_answer has come back: the answer
\* is sent, or the exception goes through the inner and the outer handler.
\* `backends` lists the backend calls generate_answer made, each with what it
\* did.
AskFinish(log, backends, result) ==
    /\ frame' = [pc |-> "done", log |-> log, before |-> frame.before,
                 backends |-> backends, result |-> result]
    /\ ret' = IF result.ok THEN [status |-> 200, answer |-> result.text]
              ELSE [status |-> translate(completion_failure(result))]

\* generate_answer, line 43: the Ollama backend is called.
Ollama(out) ==
    LET log == Append(frame.log, "ollama")
        backends == Append(frame.backends, <<"ollama", out>>)
        then == after_ollama(out)
    IN /\ frame.pc = "ollama"
       /\ IF then.pc = "return" THEN AskFinish(log, backends, then.result)
          ELSE /\ frame' = [frame EXCEPT !.pc = then.pc, !.log = log,
                                         !.backends = backends]
               /\ ret' = ret
       /\ UNCHANGED <<store, disk, call>>

\* generate_answer, line 49: the Hugging Face backend is called.
HuggingFace(out) ==
    /\ frame.pc = "huggingface"
    /\ AskFinish(Append(frame.log, "huggingface"),
                 Append(frame.backends, <<"huggingface", out>>),
                 after_huggingface(out).result)
    /\ UNCHANGED <<store, disk, call>>

\* upload_document, lines 102-130: the extension and the content are checked,
\* the text is extracted and cut into chunks.
extract(filename, content) ==
    LET file_ext == splitext(filename)[2]
    IN IF file_ext \notin allowed_extensions THEN HTTPException(400)
       ELSE IF content.bytes = "none" THEN HTTPException(400)
       ELSE IF content.bytes = "undecodable"
       THEN IF file_ext = ".pdf" THEN Raises("ValueError", <<"Error", "reading", "PDF:">>)
            ELSE Raises("UnicodeDecodeError", <<>>)
       ELSE IF Not(content.chunks)
       THEN IF file_ext = ".pdf" THEN Raises("ValueError", <<"Error", "reading", "PDF:">>)
            ELSE HTTPException(400)
       ELSE [ok |-> TRUE, chunks |-> content.chunks]

UploadExtract ==
    LET out == extract(call.filename, call.content)
    IN /\ frame.pc = "upload"
       /\ IF out.ok
          THEN /\ frame' = [pc |-> "generate_embeddings_batch", log |-> frame.log,
                            before |-> frame.before, chunks |-> out.chunks]
               /\ ret' = ret
          ELSE Respond(translate(out))
       /\ UNCHANGED <<store, disk, call>>

\* upload_document, line 134: the embedding provider is called.
UploadEmbed(ok) ==
    /\ frame.pc = "generate_embeddings_batch"
    /\ LET log == Append(frame.log, "generate_embeddings_batch")
       IN IF ok
          THEN /\ frame' = [pc |-> "add_documents", log |-> log, before |-> frame.before,
                            chunks |-> frame.chunks,
                            embeddings |-> [i \in DOMAIN frame.chunks |->
                                                embed(frame.chunks[i])]]
               /\ ret' = ret
          ELSE /\ frame' = [pc |-> "done", log |-> log, before |-> frame.before]
               /\ ret' = [status |-> translate(EmbeddingError)]
    /\ UNCHANGED <<store, disk, call>>

\* upload_document, lines 137-144
metadata_list(filename, chunks) ==
    [i \in DOMAIN chunks |->
        [filename |-> filename, chunk_index |-> i - 1, total_chunks |-> Len(chunks)]]

\* upload_document, line 147: the chunks are added to the store.
UploadAdd ==
    LET r == add_documents(Self, frame.embeddings, frame.chunks,
                           ListArg(metadata_list(call.filename, frame.chunks)))
        log == Append(frame.log, "add_documents")
    IN /\ frame.pc = "add_documents"
       /\ SetSelf(r.self)
       /\ disk' = IF r.saved THEN save(r.self, disk) ELSE disk
       /\ IF r.exc = "none"
          THEN /\ frame' = [pc |-> "write", log |-> log, before |-> frame.before]
               /\ ret' = ret
          ELSE /\ frame' = [pc |-> "done", log |-> log, before |-> frame.before]
               /\ ret' = [status |-> translate(Raises(r.exc, <<>>))]
       /\ UNCHANGED call

\* upload_document, lines 150-159: the uploaded file is written under data/,
\* which the file system allows or refuses.
UploadWrite(ok) ==
    /\ frame.pc = "write"
    /\ frame' = [pc |-> "done", log |-> Append(frame.log, "write"),
                 before |-> frame.before]
    /\ ret' = [status |-> IF ok THEN 200 ELSE translate(Raises("OSError", <<>>))]
    /\ UNCHANGED <<store, disk, call>>

\* delete_file, lines 282-314
DeleteFile(filename) ==
    LET file_info == get_file_info(Self)
        file_exists == \E i \in DOMAIN file_info : file_info[i].filename = filename
        r == delete_documents_by_filename(Self, filename)
    IN /\ Idle
       /\ call' = [op |-> "delete_file", filename |-> filename]
       /\ frame' = [pc |-> "done", log |-> <<>>, before |-> Before]
       /\ IF ~file_exists
          THEN /\ ret' = [status |-> 404]
               /\ UNCHANGED <<store, disk>>
          ELSE /\ SetSelf(r.self)
               /\ disk' = IF r.saved THEN save(r.self, disk) ELSE disk
               /\ ret' = [status |-> IF r.exc = "none" THEN 200 ELSE 500]

\* The response is sent and the next request can be served.
ServiceReturn ==
    /\ frame.pc = "done"
    /\ call' = NoCall
    /\ frame' = NoFrame
    /\ ret' = Returned
    /\ UNCHANGED <<store, disk>>

\* The service starts on what the disk holds.
ServiceInit ==
    /\ disk \in {NoFiles, ForeignDisk} \cup LegacyDisks
    /\ dimension = new(Dim, disk).dimension
    /\ index = new(Dim, disk).index
    /\ texts = new(Dim, disk).texts
    /\ metadata = new(Dim, disk).metadata
    /\ embeddings = new(Dim, disk).embeddings
    /\ call = NoCall
    /\ ret = Returned
    /\ frame = NoFrame

ServiceNext ==
    \/ \E question \in Questions : AskReceive(question)
    \/ AskValidate
    \/ \E out \in {EmbeddingError} \cup {Embedded(v) : v \in Queries} : AskEmbed(out)
    \/ AskSearch
    \/ \E out \in OllamaOutcomes : Ollama(out)
    \/ \E out \in HuggingFaceOutcomes : HuggingFace(out)
    \/ \E filename \in UploadNames, content \in Contents : UploadReceive(filename, content)
    \/ UploadExtract
    \/ \E ok \in BOOLEAN : UploadEmbed(ok)
    \/ UploadAdd
    \/ \E ok \in BOOLEAN : UploadWrite(ok)
    \/ \E filename \in UploadNames : DeleteFile(filename)
    \/ ServiceReturn

ServiceSpec == ServiceInit /\ [][ServiceNext]_vars

\* An /ask request has been answered.
Asked == call.op = "ask" /\ frame.pc = "done"

\* C23: in /ask a question that is empty after trimming, and a question asked
\* while the store holds zero records, yield a 400 response before any call of
\* the embedding provider, of the store's search or of a completion provider.
C23_ValidationIsImmediate ==
    (Asked /\ (Not(strip(call.question)) \/ Not(frame.before.self.texts)))
        => (ret.status = 400 /\ frame.log = <<>>)

\* The same where the store's size() is what is zero.
C23_WhenSizeIsZero ==
    (Asked /\ (Not(strip(call.question)) \/ size(frame.before.self) = 0))
        => (ret.status = 400 /\ frame.log = <<>>)

\* A provider failed while the request was served: the embedding provider, or
\* both completion backends.
ProviderFailed ==
    /\ call.op \in {"ask", "upload"}
    /\ frame.pc = "done"
    /\ frame.log # <<>>
    /\ \/ frame.log[Len(frame.log)] \in {"generate_embedding", "generate_embeddings_batch"}
       \/ /\ frame.log[Len(frame.log)] = "huggingface"
          /\ ~frame.result.ok

\* C24: a failure of the embedding or completion provider during /ask or
\* /upload is answered with a status of its own, service unavailable (503),
\* which is neither the status of internal faults (500) nor that of caller
\* input errors (400).
C24_ProviderFailureIsUnavailable ==
    ProviderFailed => ret.status = 503

\* What the handlers do: a provider failure is answered as a bad request.
C24_ProviderFailureIsBadRequest ==
    ProviderFailed => ret.status = 400

\* Each kind of provider failure is answered.
C24_Reached ==
    /\ ProviderFailed
    /\ frame.log[Len(frame.log)] = "huggingface"

\* generate_answer has come back to ask_question.
Generated == Asked /\ "backends" \in DOMAIN frame

\* C26: generate_answer(use_ollama=True) calls the Ollama backend first and
\* once, calls the Hugging Face backend only if the Ollama call raised and then
\* once, returns the result of the first backend that returns, and raises
\* only if both backends raised.
C26_FirstSuccessWins ==
    Generated =>
        LET made == frame.backends
            first == made[1][2]
            second == made[2][2]
        IN /\ Len(made) \in {1, 2}
           /\ made[1][1] = "ollama"
           /\ Len(made) = 1 <=> first.ok
           /\ Len(made) = 2 => made[2][1] = "huggingface"
           /\ first.ok => frame.result = first
           /\ (Len(made) = 2 /\ second.ok) => frame.result = second
           /\ ~frame.result.ok <=> (Len(made) = 2 /\ ~first.ok /\ ~second.ok)
           /\ frame.result.ok => ret = [status |-> 200, answer |-> frame.result.text]
           /\ ~frame.result.ok => ret.status # 200

\* The Hugging Face backend was called after Ollama's failure and answered.
C26_Witness ==
    /\ Generated
    /\ Len(frame.backends) = 2
    /\ frame.result.ok

\* An /upload request has been answered with an error.
UploadFailed == call.op = "upload" /\ frame.pc = "done" /\ ret.status # 200

\* C27: an /upload request that ends in an error response, at whatever step
\* it failed, leaves the store and its persisted snapshot as they were.
C27_FailedUploadChangesNothing ==
    UploadFailed => (Self = frame.before.self /\ disk = frame.before.disk)

\* The same for the uploads that fail before the file is written.
C27_FailedBeforeTheWrite ==
    (UploadFailed /\ (frame.log = <<>> \/ frame.log[Len(frame.log)] # "write"))
        => (Self = frame.before.self /\ disk = frame.before.disk)

\* An upload failed at the insertion.
C27_FailedAtInsertion ==
    UploadFailed /\ frame.log # <<>> /\ frame.log[Len(frame.log)] = "add_documents"

\* ------------------------------ the handlers of main_free.py on their threads

\* upload_document and ask_question are coroutines and run on the event loop,
\* one at a time between their awaits; get_status, delete_file and
\* clear_database are plain functions and run on worker threads.  No handler
\* and no method of VectorDB takes a lock, so a thread switch can fall between
\* any two statements.  One thread changes the store (frame.writer), another
\* reads it (frame.reader).

\* A statement that is still to run: an assignment to an attribute of the
\* store, save(), or the removal of the files.
Assign(line, field, value) == [do |-> "assign", line |-> line, field |-> field, value |-> value]
Save(line) == [do |-> "save", line |-> line]
RemoveFiles(line) == [do |-> "remove_files", line |-> line]

NoThread == [pc |-> "none"]
Running(thread) == thread.pc # "none"

\* The generations of the store that one read is followed through.
MaxGenerations == 2

\* The stores a read may be of while it lasts: the one it found, and the one
\* each call that runs meanwhile leaves.
GensAtWrite(after) == IF Running(frame.reader) THEN frame.gens \cup {after} ELSE frame.gens

\* The writer starts a call that will leave the store `after`.
Start(op, thread, after, pending) ==
    /\ ~Running(frame.writer)
    /\ Cardinality(GensAtWrite(after)) <= MaxGenerations
    /\ frame' = [frame EXCEPT
                    !.writer = [pc |-> IF pending = <<>> THEN "done" ELSE "running",
                                op |-> op, thread |-> thread, before |-> Self,
                                after |-> after, pending |-> pending],
                    !.gens = GensAtWrite(after)]
    /\ UNCHANGED <<call, ret>>

\* add_documents as upload_document calls it, lines 45-55: the checks, and
\* index.add; lines 58-67 are still to run.
AddDocumentsStart(embs, txts, meta) ==
    LET r == add_documents(Self, embs, txts, meta)
    IN /\ ~(Running(frame.reader) /\ frame.reader.thread = "loop")
       /\ Len(r.self.texts) <= MaxRecords
       /\ Len(r.self.metadata) <= MaxRecords
       /\ ntotal(r.self.index) <= MaxRecords
       /\ Start("add_documents", "loop", r.self,
                IF r.saved
                THEN <<Assign(58, "texts", r.self.texts),
                       Assign(59, "embeddings", r.self.embeddings),
                       Assign(60, "metadata", r.self.metadata),
                       Save(67)>>
                ELSE <<>>)
       /\ index' = r.self.index
       /\ UNCHANGED <<dimension, texts, metadata, embeddings, disk>>

\* delete_documents_by_filename as delete_file calls it, on a store that
\* retains its embeddings; lines 158-217: the checks and the rebuild into
\* locals; lines 220-226 are still to run.
DeleteStart(filename) ==
    LET r == delete_documents_by_filename(Self, filename)
    IN /\ has_some_embeddings(Self) \/ ~r.saved
       /\ Start("delete_documents_by_filename", "worker", r.self,
                IF r.saved
                THEN <<Assign(220, "index", r.self.index),
                       Assign(221, "texts", r.self.texts),
                       Assign(222, "metadata", r.self.metadata),
                       Assign(223, "embeddings", r.self.embeddings),
                       Save(226)>>
                ELSE <<>>)
       /\ UNCHANGED <<store, disk>>

\* clear as clear_database calls it, line 269; lines 270-278 are still to run.
ClearStart ==
    /\ Start("clear", "worker", clear(Self),
             <<Assign(270, "texts", <<>>),
               Assign(271, "metadata", <<>>),
               Assign(272, "embeddings", <<>>),
               RemoveFiles(274)>>)
    /\ index' = IndexFlatL2(dimension)
    /\ UNCHANGED <<dimension, texts, metadata, embeddings, disk>>

\* The writer runs its next statement.
WriterStep ==
    LET st == Head(frame.writer.pending)
        rest == Tail(frame.writer.pending)
    IN /\ frame.writer.pc = "running"
       /\ frame' = [frame EXCEPT !.writer.pending = rest,
                                 !.writer.pc = IF rest = <<>> THEN "done" ELSE "running"]
       /\ IF st.do = "assign"
          THEN /\ SetSelf([Self EXCEPT ![st.field] = st.value])
               /\ disk' = disk
          ELSE /\ disk' = IF st.do = "save" THEN save(Self, disk) ELSE remove_files(disk)
               /\ UNCHANGED store
       /\ UNCHANGED <<call, ret>>

\* The writer's call returns.
WriterReturn ==
    /\ frame.writer.pc = "done"
    /\ frame' = [frame EXCEPT !.writer = NoThread]
    /\ UNCHANGED <<store, disk, call, ret>>

\* The reader starts: what it has seen of the store so far is `seen`.
Read(op, thread, pc, seen, locals) ==
    /\ ~Running(frame.reader)
    /\ frame' = [frame EXCEPT
                    !.reader = [pc |-> pc, op |-> op, thread |-> thread, seen |-> seen,
                                locals |-> locals],
                    !.gens = IF Running(frame.writer)
                             THEN {frame.writer.before, frame.writer.after}
                             ELSE {Self}]
    /\ UNCHANGED <<store, disk, call, ret>>

\* search as ask_question calls it, lines 80-87: the index is searched.
SearchIndex(query_embedding) ==
    LET query_array == np_array(<<query_embedding>>)
        found == index_search(index, query_array.rows[1], Min(3, ntotal(index)))
    IN /\ ~(Running(frame.writer) /\ frame.writer.thread = "loop")
       /\ IF ntotal(index) = 0
          THEN Read("search", "loop", "done", [index |-> index], <<>>)
          ELSE Read("search", "loop", "records", [index |-> index], found)

\* search, lines 90-98: the texts and the metadata of the labels are read.
SearchRecords ==
    /\ frame.reader.pc = "records"
    /\ frame' = [frame EXCEPT
                    !.reader.pc = "done",
                    !.reader.seen = [index |-> frame.reader.seen.index,
                                     texts |-> texts, metadata |-> metadata]]
    /\ UNCHANGED <<store, disk, call, ret>>

\* size as get_status calls it: the index is read.
Size ==
    /\ ~Running(frame.reader)
    /\ Read("size", "worker", "done", [index |-> index], size(Self))

\* The reader's call returns.
ReaderReturn ==
    /\ frame.reader.pc = "done"
    /\ frame' = [frame EXCEPT !.reader = NoThread, !.gens = {}]
    /\ UNCHANGED <<store, disk, call, ret>>

\* The stores the service is in when two requests meet: what uploads have
\* left.
UploadedStores ==
    {[dimension |-> Dim,
      index |-> [d |-> Dim, xb |-> np_array([i \in DOMAIN recs |-> recs[i][1][1]]).rows],
      texts |-> [i \in DOMAIN recs |-> recs[i][1][2]],
      metadata |-> [i \in DOMAIN recs |-> recs[i][2]],
      embeddings |-> [i \in DOMAIN recs |-> Some(recs[i][1][1])]] :
        recs \in SeqsOfLen(Documents \X Metas, 0..MaxRecords)}

ThreadInit ==
    /\ \E self \in UploadedStores :
          /\ dimension = self.dimension
          /\ index = self.index
          /\ texts = self.texts
          /\ metadata = self.metadata
          /\ embeddings = self.embeddings
          /\ disk = IF Not(self.texts) THEN NoFiles ELSE save(self, NoFiles)
          /\ frame = [writer |-> NoThread, reader |-> NoThread, gens |-> {}]
    /\ call = NoCall
    /\ ret = Returned

ThreadNext ==
    \/ \E doc \in Documents, meta \in Metas :
          AddDocumentsStart(<<doc[1]>>, <<doc[2]>>, ListArg(<<meta>>))
    \/ \E filename \in Filenames : DeleteStart(filename)
    \/ ClearStart
    \/ WriterStep
    \/ WriterReturn
    \/ \E query_embedding \in Queries : SearchIndex(query_embedding)
    \/ SearchRecords
    \/ Size
    \/ ReaderReturn

ThreadSpec == ThreadInit /\ [][ThreadNext]_vars

\* A read has ended.
HasRead == Running(frame.reader) /\ frame.reader.pc = "done"

\* What the read saw is the store of generation g.
SeenIn(g) == \A field \in DOMAIN frame.reader.seen : frame.reader.seen[field] = g[field]

\* C22: a search or a size read that runs while add_documents,
\* delete_documents_by_filename or clear runs in another handler sees the
\* store of one generation, the one before or the one after the call: never
\* an index with the texts and the metadata of another length or generation,
\* never a partly rebuilt index.
C22_ReadsSeeOneGeneration ==
    HasRead => \E g \in frame.gens : SeenIn(g)

\* The index a read sees is that of a generation, never a partly rebuilt one.
C22_IndexIsOfAGeneration ==
    HasRead => \E g \in frame.gens : frame.reader.seen.index = g.index

\* Every call of the writer, run statement by statement, leaves the store its
\* method leaves.
WriterLeavesAfter ==
    frame.writer.pc = "done" => Self = frame.writer.after

====
